---- MODULE Spec2Model ----
(***************************************************************************)
(* Medical device integration layer of the kiosk backend:                  *)
(*   backend/app/devices/ble_manager.py   drivers and DeviceManager        *)
(*   backend/app/devices/calibration.py   DeviceCalibrator and             *)
(*                                        DeviceHealthMonitor              *)
(* The operations are the public coroutines of these classes.  Every       *)
(* coroutine is cut at its await points: one action per stretch of code    *)
(* that the asyncio event loop runs without suspension.                    *)
(***************************************************************************)
EXTENDS Integers, Sequences, FiniteSets, TLC

(***************************************************************************)
(* Bounds of the model.                                                    *)
(***************************************************************************)
MaxDrivers == 2        \* driver objects DeviceManager may construct
MaxRuns == 2           \* calibration runs (they may overlap)
MaxNotifs == 2         \* notifications delivered outside calibration runs
MaxDisc == 1           \* disconnect_device calls in flight per driver
MaxClockSteps == 2     \* advances of the wall clock
MaxStarts == 2         \* start_monitoring calls
MaxTicks == 2          \* monitoring ticks that sample a non-empty table
MaxIter == 1           \* report or status iterations suspended at a time

(***************************************************************************)
(* Program constants.                                                      *)
(***************************************************************************)
BP_SAMPLES == 5            \* for i in range(5)
BP_MIN_READINGS == 3       \* if len(readings) < 3
PLX_SAMPLES == 10          \* for i in range(10)
PLX_MIN_READINGS == 5      \* if len(readings) < 5
BP_INTERVAL_DAYS == 365    \* calibration_intervals[BLOOD_PRESSURE]
PLX_INTERVAL_DAYS == 180   \* calibration_intervals[PULSE_OXIMETER]
DEFAULT_INTERVAL_DAYS == 180  \* calibration_intervals.get(device_type, 180)
BP_THRESHOLD == 3          \* deviation_thresholds: systolic 3, diastolic 3
SPO2_THRESHOLD == 2        \* deviation_thresholds: spo2 2
PULSE_THRESHOLD == 3       \* deviation_thresholds: pulse_rate 3
HoursPerDay == 24          \* timedelta.days floors to whole days
SPO2_SCALE == 100          \* spo2 = raw / 100.0

\* None, for a device_id; an absent datetime or number is NoneInt, and an
\* Optional record is a sequence of length 0 or 1.
None == "None"
NoneInt == -1

\* DeviceType values of the devices discovery has produced.
DeviceIds == {"bp1", "ox1"}

\* The devices of the two-monitor scenario: two blood-pressure monitors.
CrossDeviceIds == {"bp1", "bp2"}

\* The devices of the manager scenario: a blood-pressure monitor and a
\* thermometer.
ManagerDeviceIds == {"bp1", "th1"}

TypeOf(dev) ==
    IF dev \in CrossDeviceIds THEN "blood_pressure"
    ELSE IF dev = "th1" THEN "thermometer"
    ELSE "pulse_oximeter"

Drivers == 1..MaxDrivers
Runs == 1..MaxRuns

\* DeviceStatus
DeviceStatus ==
    {"disconnected", "connecting", "connected", "reading", "error", "calibrating"}

VARIABLES
    BLE_AVAILABLE,        \* the transport library was importable when the module loaded
    now,                  \* datetime.utcnow(), in hours
    clockSteps,           \* advances of the clock so far
    constructed,          \* number of driver objects constructed so far
    devOf,                \* driver -> device_info.device_id
    status,               \* driver -> DeviceDriver.status
    client,               \* driver -> "none" | "created" | "connected" (client.is_connected)
    subscribed,           \* driver -> start_notify is in effect
    callbacks,            \* driver -> number of registered callbacks
    connecting,           \* drivers suspended inside connect()
    disc,                 \* driver -> disconnect_device calls suspended in its disconnect()
    reader,               \* driver -> the caller suspended in its read_data(), if any
    devices,              \* DeviceManager.devices: device_id -> driver
    calibration_records,  \* DeviceCalibrator.calibration_records: device_id -> list
    run,                  \* calibration run -> its local state
    decoded,              \* device_id -> readings decoded for manager-connected drivers
    sink,                 \* device_id -> readings store_device_reading received
    unawaited,            \* device_id -> coroutine objects created and never scheduled
    notifs,               \* notifications delivered outside calibration runs
    monitoring_active,    \* DeviceHealthMonitor.monitoring_active
    loops,                \* _monitoring_loop tasks alive
    starts,               \* start_monitoring calls so far
    ticks,                \* sampling ticks so far
    health_metrics,       \* DeviceHealthMonitor.health_metrics: device_id -> list
    returned,             \* what the last DeviceManager call to return returned
    shutdown,             \* position and locals of DeviceManager.shutdown()
    codec,                \* the frame handed to _handle_bp_measurement and what it built
    iterating             \* kind of loop over the table -> loops suspended inside it

vars ==
    << BLE_AVAILABLE, now, clockSteps, constructed, devOf, status, client, subscribed, callbacks,
       connecting, disc, reader, devices, calibration_records, run, decoded, sink,
       unawaited, notifs, monitoring_active, loops, starts, ticks, health_metrics,
       returned, shutdown, codec, iterating >>

driverVars == << constructed, devOf, status, client, subscribed, callbacks, connecting,
                 disc, reader, devices >>
clockVars == << now, clockSteps >>
managerVars == << returned, shutdown >>
calVars == << calibration_records, run >>
readingVars == << decoded, sink, unawaited, notifs >>
monitorVars == << monitoring_active, loops, starts, ticks, health_metrics, iterating >>

\* The loops over DeviceManager.devices.items(): the monitoring tick,
\* generate_health_report and the status endpoint.
IterationKinds == {"tick", "report", "status"}

EmptyDict == [k \in {} |-> 0]

\* shutdown() not called: no ids left to visit, no disconnect awaited.
IdleShutdown == [pc |-> "idle", todo |-> << >>, waiting |-> 0, snapshot |-> {}]

\* No frame has been handed to the blood-pressure handler.
IdleCodec == [frame |-> << >>, handled |-> FALSE, reading |-> << >>]

IdleRun ==
    [pc |-> "idle", dev |-> None, drv |-> 0, i |-> 0, readings |-> << >>,
     ref |-> EmptyDict, seen |-> 0, result |-> << >>]

Init ==
    /\ BLE_AVAILABLE \in BOOLEAN
    /\ now = 0
    /\ clockSteps = 0
    /\ constructed = 0
    /\ devOf = [d \in Drivers |-> None]
    /\ status = [d \in Drivers |-> "disconnected"]
    /\ client = [d \in Drivers |-> "none"]
    /\ subscribed = [d \in Drivers |-> FALSE]
    /\ callbacks = [d \in Drivers |-> 0]
    /\ connecting = {}
    /\ disc = [d \in Drivers |-> 0]
    /\ reader = [d \in Drivers |-> << >>]
    /\ devices = EmptyDict
    /\ calibration_records = EmptyDict
    /\ run = [r \in Runs |-> IdleRun]
    /\ decoded = [dev \in DeviceIds \cup CrossDeviceIds |-> 0]
    /\ sink = [dev \in DeviceIds \cup CrossDeviceIds |-> 0]
    /\ unawaited = [dev \in DeviceIds \cup CrossDeviceIds |-> 0]
    /\ notifs = 0
    /\ monitoring_active = FALSE
    /\ loops = 0
    /\ starts = 0
    /\ ticks = 0
    /\ health_metrics = EmptyDict
    /\ iterating = [kind \in IterationKinds |-> 0]
    /\ returned = << >>
    /\ shutdown = IdleShutdown
    /\ codec = IdleCodec

\* dict[key] = value
Put(dict, key, value) ==
    [k \in DOMAIN dict \cup {key} |-> IF k = key THEN value ELSE dict[k]]

\* del dict[key]
Del(dict, key) == [k \in DOMAIN dict \ {key} |-> dict[k]]

----------------------------------------------------------------------------
(***************************************************************************)
(* DeviceManager.connect_device and the drivers' connect().                *)
(***************************************************************************)

\* connect_device up to the first await of driver.connect(): _create_driver
\* constructs a new driver, connect() sets CONNECTING and creates the client.
ConnectBegin(dev) ==
    /\ BLE_AVAILABLE
    /\ constructed < MaxDrivers
    /\ LET d == constructed + 1 IN
        /\ constructed' = d
        /\ devOf' = [devOf EXCEPT ![d] = dev]
        /\ status' = [status EXCEPT ![d] = "connecting"]
        /\ client' = [client EXCEPT ![d] = "created"]
        /\ connecting' = connecting \cup {d}
    /\ UNCHANGED << subscribed, callbacks, disc, reader, devices >>
    /\ UNCHANGED << BLE_AVAILABLE, codec, managerVars, clockVars, calVars, readingVars,
                    monitorVars >>

\* connect_device without the transport library: _create_driver constructs a
\* new driver, connect() returns False at `if not BLE_AVAILABLE` without
\* writing the status, and connect_device returns False.
ConnectUnavailable(dev) ==
    /\ ~BLE_AVAILABLE
    /\ constructed < MaxDrivers
    /\ constructed' = constructed + 1
    /\ devOf' = [devOf EXCEPT ![constructed + 1] = dev]
    /\ UNCHANGED << status, client, subscribed, callbacks, connecting, disc, reader,
                    devices >>
    /\ returned' = <<"connect_device", FALSE>>
    /\ UNCHANGED << BLE_AVAILABLE, codec, shutdown, clockVars, calVars, readingVars, monitorVars >>

\* client.connect() and start_notify() succeed: CONNECTED, True; connect_device
\* stores the driver in the table and registers _handle_device_reading.
ConnectSucceed(d) ==
    /\ d \in connecting
    /\ connecting' = connecting \ {d}
    /\ client' = [client EXCEPT ![d] = "connected"]
    /\ subscribed' = [subscribed EXCEPT ![d] = TRUE]
    /\ status' = [status EXCEPT ![d] = "connected"]
    /\ devices' = Put(devices, devOf[d], d)
    /\ callbacks' = [callbacks EXCEPT ![d] = @ + 1]
    /\ UNCHANGED << constructed, devOf, disc, reader >>
    /\ returned' = <<"connect_device", TRUE>>
    /\ UNCHANGED << BLE_AVAILABLE, codec, shutdown, clockVars, calVars, readingVars, monitorVars >>

\* A connect_device that stores the driver before looking at what connect()
\* returned.
ConnectFailInserting(d, linked) ==
    /\ d \in connecting
    /\ connecting' = connecting \ {d}
    /\ client' = [client EXCEPT ![d] = IF linked THEN "connected" ELSE "created"]
    /\ status' = [status EXCEPT ![d] = "error"]
    /\ devices' = Put(devices, devOf[d], d)
    /\ UNCHANGED << constructed, devOf, subscribed, callbacks, disc, reader >>
    /\ returned' = <<"connect_device", FALSE>>
    /\ UNCHANGED << BLE_AVAILABLE, codec, shutdown, clockVars, calVars, readingVars, monitorVars >>

\* client.connect() raises (linked = FALSE) or start_notify() raises after the
\* link came up (linked = TRUE): ERROR, False; connect_device returns False.
ConnectFail(d, linked) ==
    /\ d \in connecting
    /\ connecting' = connecting \ {d}
    /\ client' = [client EXCEPT ![d] = IF linked THEN "connected" ELSE "created"]
    /\ status' = [status EXCEPT ![d] = "error"]
    /\ UNCHANGED << constructed, devOf, subscribed, callbacks, disc, reader, devices >>
    /\ returned' = <<"connect_device", FALSE>>
    /\ UNCHANGED << BLE_AVAILABLE, codec, shutdown, clockVars, calVars, readingVars, monitorVars >>

\* The transport loses the link (device out of range, battery empty):
\* client.is_connected becomes False and notifications stop.
LinkLost(d) ==
    /\ client[d] = "connected"
    /\ d \notin connecting
    /\ client' = [client EXCEPT ![d] = "created"]
    /\ subscribed' = [subscribed EXCEPT ![d] = FALSE]
    /\ UNCHANGED << constructed, devOf, status, callbacks, connecting, disc, reader,
                    devices >>
    /\ UNCHANGED << BLE_AVAILABLE, codec, managerVars, clockVars, calVars, readingVars,
                    monitorVars >>

----------------------------------------------------------------------------
(***************************************************************************)
(* DeviceManager.disconnect_device and the drivers' disconnect().          *)
(***************************************************************************)

\* ThermometerDriver (and the base driver) define no disconnect(): the call
\* raises NotImplementedError.
DisconnectNotImplemented(dev) == TypeOf(dev) = "thermometer"

\* disconnect_device for an id that is not in the table: False.
DisconnectUnknown(dev) ==
    /\ dev \notin DOMAIN devices
    /\ returned' = <<"disconnect_device", FALSE>>
    /\ UNCHANGED << BLE_AVAILABLE, codec, shutdown, driverVars, clockVars, calVars, readingVars,
                    monitorVars >>

\* disconnect_device up to the first await of driver.disconnect().  With no
\* connected client disconnect() returns at once without touching the status,
\* and disconnect_device deletes the table entry and returns True.  A driver
\* without disconnect() raises: the except block returns False and the entry
\* stays.
DisconnectBegin(dev) ==
    /\ dev \in DOMAIN devices
    /\ LET d == devices[dev] IN
        IF DisconnectNotImplemented(dev)
        THEN /\ returned' = <<"disconnect_device", FALSE>>
             /\ UNCHANGED << devices, disc >>
        ELSE IF client[d] = "connected"
        THEN /\ disc[d] < MaxDisc
             /\ disc' = [disc EXCEPT ![d] = @ + 1]
             /\ UNCHANGED << devices, returned >>
        ELSE /\ devices' = Del(devices, dev)
             /\ returned' = <<"disconnect_device", TRUE>>
             /\ UNCHANGED disc
    /\ UNCHANGED << constructed, devOf, status, client, subscribed, callbacks,
                    connecting, reader >>
    /\ UNCHANGED << BLE_AVAILABLE, codec, shutdown, clockVars, calVars, readingVars, monitorVars >>

\* The rest of driver d's disconnect().  ok: stop_notify() and
\* client.disconnect() return and the status becomes DISCONNECTED; otherwise
\* one of them raises, which disconnect() logs, leaving the status as it was.
DisconnectEffect(d, ok) ==
    /\ ok => client[d] = "connected"
    /\ IF ok
       THEN /\ subscribed' = [subscribed EXCEPT ![d] = FALSE]
            /\ client' = [client EXCEPT ![d] = "created"]
            /\ status' = [status EXCEPT ![d] = "disconnected"]
       ELSE UNCHANGED << subscribed, client, status >>

\* The rest of disconnect() and of a disconnect_device call (not the one
\* shutdown() is waiting for): `del self.devices[device_id]` removes whatever
\* entry the table holds under the id and the call returns True; a KeyError
\* is caught and the call returns False.
DisconnectFinish(d, ok) ==
    /\ disc[d] > (IF shutdown.waiting = d THEN 1 ELSE 0)
    /\ DisconnectEffect(d, ok)
    /\ disc' = [disc EXCEPT ![d] = @ - 1]
    /\ devices' = Del(devices, devOf[d])
    /\ returned' = <<"disconnect_device", devOf[d] \in DOMAIN devices>>
    /\ UNCHANGED << constructed, devOf, callbacks, connecting, reader >>
    /\ UNCHANGED << BLE_AVAILABLE, codec, shutdown, clockVars, calVars, readingVars, monitorVars >>

----------------------------------------------------------------------------
(***************************************************************************)
(* DeviceManager.shutdown.                                                 *)
(***************************************************************************)

\* The orders in which `list(self.devices.keys())` can list the ids of a table.
Orders(table) ==
    { order \in [1..Cardinality(DOMAIN table) -> DOMAIN table] :
        \A i, j \in DOMAIN order : i # j => order[i] # order[j] }

\* The for loop of shutdown() from the ids `todo` on, up to the first
\* disconnect_device call that suspends.  An id no longer in the table and a
\* driver whose disconnect() raises are passed over (disconnect_device returns
\* False), a driver without a connected client is removed from the table at
\* once, and a driver with a connected client suspends the loop in its
\* disconnect().  When the ids are used up `self.devices.clear()` empties
\* the table.
RECURSIVE ShutdownLoop(_, _)
ShutdownLoop(todo, table) ==
    IF todo = << >>
    THEN [todo |-> << >>, devices |-> EmptyDict, waiting |-> 0]
    ELSE LET dev == Head(todo) IN
         IF dev \notin DOMAIN table \/ DisconnectNotImplemented(dev)
         THEN ShutdownLoop(Tail(todo), table)
         ELSE IF client[table[dev]] = "connected"
         THEN [todo |-> Tail(todo), devices |-> table, waiting |-> table[dev]]
         ELSE ShutdownLoop(Tail(todo), Del(table, dev))

\* shutdown() from its call to its first suspension, or to its return when no
\* disconnect suspends.  snapshot: the drivers in the table at the call.
ShutdownBegin(order) ==
    /\ shutdown.pc = "idle"
    /\ order \in Orders(devices)
    /\ LET loop == ShutdownLoop(order, devices) IN
        /\ loop.waiting # 0 => disc[loop.waiting] < MaxDisc
        /\ devices' = loop.devices
        /\ disc' = IF loop.waiting # 0 THEN [disc EXCEPT ![loop.waiting] = @ + 1] ELSE disc
        /\ shutdown' = [pc |-> IF loop.waiting = 0 THEN "done" ELSE "waiting",
                        todo |-> loop.todo,
                        waiting |-> loop.waiting,
                        snapshot |-> { devices[dev] : dev \in DOMAIN devices }]
    /\ UNCHANGED << constructed, devOf, status, client, subscribed, callbacks,
                    connecting, reader >>
    /\ UNCHANGED << BLE_AVAILABLE, codec, returned, clockVars, calVars, readingVars, monitorVars >>

\* shutdown() from the return of the disconnect() it was suspended in: the
\* entry under the id is deleted and the loop goes on.
ShutdownResume(ok) ==
    /\ shutdown.pc = "waiting"
    /\ LET d == shutdown.waiting
           loop == ShutdownLoop(shutdown.todo, Del(devices, devOf[d]))
       IN
        /\ DisconnectEffect(d, ok)
        /\ loop.waiting # 0 => disc[loop.waiting] < MaxDisc
        /\ devices' = loop.devices
        /\ disc' = [x \in DOMAIN disc |->
                       disc[x] - (IF x = d THEN 1 ELSE 0)
                               + (IF x = loop.waiting THEN 1 ELSE 0)]
        /\ shutdown' = [shutdown EXCEPT !.pc = IF loop.waiting = 0 THEN "done" ELSE "waiting",
                                        !.todo = loop.todo,
                                        !.waiting = loop.waiting]
    /\ UNCHANGED << constructed, devOf, callbacks, connecting, reader >>
    /\ UNCHANGED << BLE_AVAILABLE, codec, returned, clockVars, calVars, readingVars, monitorVars >>

----------------------------------------------------------------------------
(***************************************************************************)
(* BloodPressureDriver.read_data.                                          *)
(***************************************************************************)

\* What read_data hands back after its sleep: `return None`.
ReadDataResult == << >>

\* A read_data that refuses to start while any calibration run is under way.
ReadDataSuspendsUnlessCalibrating(d) ==
    /\ status[d] = "connected"
    /\ \A r \in Runs : run[r].pc \notin {"inread", "sleep"}

\* read_data up to its await: a driver that is not CONNECTED returns None at
\* once; otherwise the status becomes READING and the caller `who` is
\* suspended in asyncio.sleep(30).
ReadDataSuspends(d) == status[d] = "connected"

\* read_data called through the table (the read endpoint's device.read_data()).
ReadBegin(dev) ==
    /\ dev \in DOMAIN devices
    /\ TypeOf(dev) = "blood_pressure"
    /\ LET d == devices[dev] IN
        /\ ReadDataSuspends(d)
        /\ status' = [status EXCEPT ![d] = "reading"]
        /\ reader' = [reader EXCEPT ![d] = <<"api">>]
    /\ UNCHANGED << constructed, devOf, client, subscribed, callbacks, connecting,
                    disc, devices >>
    /\ UNCHANGED << BLE_AVAILABLE, codec, managerVars, clockVars, calVars, readingVars,
                    monitorVars >>

\* The status read_data writes when its sleep is over.
StatusAfterRead(d) == "connected"

\* asyncio.sleep(30) is over: status = CONNECTED, return None.
ReadWake(d) ==
    /\ reader[d] = <<"api">>
    /\ status' = [status EXCEPT ![d] = StatusAfterRead(d)]
    /\ reader' = [reader EXCEPT ![d] = << >>]
    /\ UNCHANGED << constructed, devOf, client, subscribed, callbacks, connecting,
                    disc, devices >>
    /\ UNCHANGED << BLE_AVAILABLE, codec, managerVars, clockVars, calVars, readingVars,
                    monitorVars >>

----------------------------------------------------------------------------
(***************************************************************************)
(* Notification handlers.  A payload is the bytearray the transport hands  *)
(* to the handler (Python index k is index k + 1 here).  Pressures are kept *)
(* in thousandths, so that the kPa division by 1000.0 stays exact; SpO2 is *)
(* kept in hundredths of a percent (raw / 100.0).                          *)
(***************************************************************************)
BP_SCALE == 1000

\* struct.unpack('<H', data[k:k+2])[0]
U16(data, k) == data[k + 1] + 256 * data[k + 2]

\* flags & (1 << bit)
Bit(flags, bit) == (flags \div (2 ^ bit)) % 2 = 1

\* A score that tests for an impossible reading before it tests the ranges.
BPQualityImpossibleFirst(systolic, diastolic) ==
    IF systolic <= diastolic THEN 4
    ELSE IF ~(50 * BP_SCALE <= systolic /\ systolic <= 250 * BP_SCALE)
          \/ ~(30 * BP_SCALE <= diastolic /\ diastolic <= 150 * BP_SCALE) THEN 3
    ELSE IF systolic - diastolic < 20 * BP_SCALE
              \/ systolic - diastolic > 100 * BP_SCALE THEN 6
    ELSE 9

\* BloodPressureDriver._calculate_quality_score, in tenths.
BPQuality(systolic, diastolic) ==
    IF ~(50 * BP_SCALE <= systolic /\ systolic <= 250 * BP_SCALE)
          \/ ~(30 * BP_SCALE <= diastolic /\ diastolic <= 150 * BP_SCALE) THEN 3
    ELSE IF systolic <= diastolic THEN 4
    ELSE IF systolic - diastolic < 20 * BP_SCALE
              \/ systolic - diastolic > 100 * BP_SCALE THEN 6
    ELSE 9

\* A decoder that reads the bytes a short payload lacks as zero.
DecodeBPPadded(data) ==
    LET byte(k) == IF k <= Len(data) THEN data[k] ELSE 0
        systolic == (byte(2) + 256 * byte(3)) * BP_SCALE
        diastolic == (byte(4) + 256 * byte(5)) * BP_SCALE
    IN  << [device_type |-> "blood_pressure",
            values |-> [systolic |-> systolic, diastolic |-> diastolic,
                        mean_pressure |-> (byte(6) + 256 * byte(7)) * BP_SCALE,
                        pulse_rate |-> NoneInt],
            unit |-> "mmHg",
            quality_score |-> BPQuality(systolic, diastolic)] >>

\* The try block of _handle_bp_measurement: the DeviceReading it builds, or
\* nothing when indexing or struct.unpack raises.
DecodeBP(data) ==
    IF Len(data) < 7 THEN << >>
    ELSE LET flags == data[1]
             kpa == Bit(flags, 0)
             scale == IF kpa THEN 1 ELSE BP_SCALE
             systolic == U16(data, 1) * scale
             diastolic == U16(data, 3) * scale
             mean_pressure == U16(data, 5) * scale
             offset == IF Bit(flags, 1) THEN 14 ELSE 7
             has_pulse == Bit(flags, 2) /\ Len(data) > offset
         IN  IF has_pulse /\ Len(data) < offset + 2 THEN << >>
             ELSE << [device_type |-> "blood_pressure",
                     values |-> [systolic |-> systolic, diastolic |-> diastolic,
                                 mean_pressure |-> mean_pressure,
                                 pulse_rate |-> IF has_pulse THEN U16(data, offset)
                                                ELSE NoneInt],
                     unit |-> IF kpa THEN "kPa" ELSE "mmHg",
                     quality_score |-> BPQuality(systolic, diastolic)] >>

\* PulseOximeterDriver._calculate_plx_quality, in tenths (spo2 in hundredths).
PLXQuality(spo2, pulse_rate) ==
    IF ~(70 * SPO2_SCALE <= spo2 /\ spo2 <= 100 * SPO2_SCALE)
          \/ ~(30 <= pulse_rate /\ pulse_rate <= 200) THEN 3
    ELSE IF spo2 < 85 * SPO2_SCALE THEN 8
    ELSE 9

\* The try block of _handle_plx_measurement.
DecodePLX(data) ==
    IF Len(data) < 5 THEN << >>
    ELSE LET spo2 == U16(data, 1)
             pulse_rate == U16(data, 3)
         IN  << [device_type |-> "pulse_oximeter",
                 values |-> [spo2 |-> spo2, pulse_rate |-> pulse_rate],
                 unit |-> "percent/%",
                 quality_score |-> PLXQuality(spo2, pulse_rate)] >>

Decode(type, data) ==
    IF type = "blood_pressure" THEN DecodeBP(data) ELSE DecodePLX(data)

\* Payloads the devices send.  Blood pressure: 120/80 mmHg, 130/80 mmHg, a
\* frame cut off after 3 bytes, 120/80 with the timestamp flag and no
\* timestamp bytes, 120/80 with the pulse-rate flag and 0, 1 and 2 pulse-rate
\* bytes.  Pulse oximetry: SpO2 98.00 % at 72 bpm, a frame cut off after 1 byte.
Payloads(type) ==
    IF type = "blood_pressure"
    THEN { <<0, 120, 0, 80, 0, 93, 0>>, <<0, 130, 0, 80, 0, 96, 0>>, <<0, 120, 0>>,
           <<2, 120, 0, 80, 0, 93, 0>>, <<4, 120, 0, 80, 0, 93, 0>>,
           <<4, 120, 0, 80, 0, 93, 0, 60>>, <<4, 120, 0, 80, 0, 93, 0, 60, 0>> }
    ELSE { <<0, 72, 38, 72, 0>>, <<0>> }

\* A blood-pressure reading with systolic in [118,122] and diastolic 80.
NearReference(reading) ==
    /\ reading # << >>
    /\ reading[1].device_type = "blood_pressure"
    /\ 118 * BP_SCALE <= reading[1].values.systolic
    /\ reading[1].values.systolic <= 122 * BP_SCALE
    /\ reading[1].values.diastolic = 80 * BP_SCALE

\* What one registered callback does with a reading: DeviceManager's
\* _handle_device_reading is a coroutine function, and _notify_callbacks calls
\* it as a plain function: the call makes a coroutine object that nobody
\* awaits or schedules, so store_device_reading is not entered.
CallbackStores == FALSE

\* The transport delivers a notification to the handler start_notify
\* registered; on a successful decode _notify_callbacks calls every callback.
\* The run field `seen` counts the readings near the reference that arrived
\* while the calibration run was sampling the driver.
Notify(d, data, budget) ==
    /\ subscribed[d]
    /\ notifs < budget
    /\ data \in Payloads(TypeOf(devOf[d]))
    /\ notifs' = notifs + 1
    /\ LET dev == devOf[d]
           reading == Decode(TypeOf(dev), data)
           called == IF reading = << >> THEN 0 ELSE callbacks[d]
       IN  /\ decoded' = [decoded EXCEPT ![dev] = @ + (IF called > 0 THEN 1 ELSE 0)]
           /\ sink' = [sink EXCEPT ![dev] = @ + (IF CallbackStores THEN called ELSE 0)]
           /\ unawaited' =
                [unawaited EXCEPT ![dev] = @ + (IF CallbackStores THEN 0 ELSE called)]
           /\ run' = [r \in Runs |->
                        IF /\ run[r].drv = d
                           /\ run[r].pc \in {"inread", "sleep"}
                           /\ NearReference(reading)
                        THEN [run[r] EXCEPT !.seen = @ + 1]
                        ELSE run[r]]
    /\ UNCHANGED << BLE_AVAILABLE, codec, managerVars, driverVars, clockVars,
                    calibration_records, monitorVars >>

----------------------------------------------------------------------------
(***************************************************************************)
(* DeviceCalibrator.  A mean is the exact fraction <<numerator,            *)
(* denominator>>; a deviation likewise.                                    *)
(***************************************************************************)
Abs(x) == IF x < 0 THEN -x ELSE x

Fields(type) ==
    IF type = "blood_pressure" THEN {"systolic", "diastolic"} ELSE {"spo2", "pulse_rate"}

\* Units of the stored reading value per unit of the reference value.
Scale(field) ==
    CASE field \in {"systolic", "diastolic"} -> BP_SCALE
      [] field = "spo2" -> SPO2_SCALE
      [] OTHER -> 1

\* self.deviation_thresholds
Threshold(field) ==
    CASE field \in {"systolic", "diastolic"} -> BP_THRESHOLD
      [] field = "spo2" -> SPO2_THRESHOLD
      [] OTHER -> PULSE_THRESHOLD

\* self.calibration_intervals.get(device_type, 180)
IntervalDays(type) ==
    CASE type = "blood_pressure" -> BP_INTERVAL_DAYS
      [] type = "pulse_oximeter" -> PLX_INTERVAL_DAYS
      [] OTHER -> DEFAULT_INTERVAL_DAYS

Samples(type) == IF type = "blood_pressure" THEN BP_SAMPLES ELSE PLX_SAMPLES

\* A minimum that is one reading too low.
MinReadingsOneLess(type) ==
    IF type = "blood_pressure" THEN BP_MIN_READINGS - 1 ELSE PLX_MIN_READINGS - 1

MinReadings(type) ==
    IF type = "blood_pressure" THEN BP_MIN_READINGS ELSE PLX_MIN_READINGS

\* sum(r.values[field] for r in readings)
RECURSIVE SumField(_, _)
SumField(readings, field) ==
    IF readings = << >> THEN 0
    ELSE Head(readings).values[field] + SumField(Tail(readings), field)

\* deviation >= threshold: the inclusive comparison.
ExceedsOrEquals(deviation, threshold) == deviation[1] >= threshold * deviation[2]

\* deviation > threshold
Exceeds(deviation, threshold) == deviation[1] > threshold * deviation[2]

\* The status both calibrate_* procedures derive from the deviations.
DeviationStatus(deviation_values) ==
    IF \E f \in DOMAIN deviation_values : Exceeds(deviation_values[f], Threshold(f))
    THEN "out_of_spec"
    ELSE "calibrated"

\* The record the try block builds from enough readings.
MeasuredRecord(dev, readings, ref, t) ==
    LET n == Len(readings)
        fields == Fields(TypeOf(dev))
        measured == [f \in fields |-> << SumField(readings, f), n * Scale(f) >>]
        deviation ==
            [f \in fields |->
                << Abs(SumField(readings, f) - n * Scale(f) * ref[f]), n * Scale(f) >>]
    IN  [device_id |-> dev,
         calibration_date |-> t,
         calibration_type |-> "user",
         reference_values |-> ref,
         measured_values |-> measured,
         deviation_values |-> deviation,
         status |-> DeviationStatus(deviation),
         notes |-> None,
         next_calibration_due |-> t + IntervalDays(TypeOf(dev)) * HoursPerDay]

\* The record the except block builds.
ErrorRecord(dev, ref, t) ==
    [device_id |-> dev,
     calibration_date |-> t,
     calibration_type |-> "user",
     reference_values |-> ref,
     measured_values |-> EmptyDict,
     deviation_values |-> EmptyDict,
     status |-> "calibration_failed",
     notes |-> "str(e)",
     next_calibration_due |-> NoneInt]

\* The record a run ends with once its sampling loop is over: too few
\* readings raise inside the try block, which the except block records.
FinalRecord(dev, readings, ref, t) ==
    IF Len(readings) < MinReadings(TypeOf(dev))
    THEN ErrorRecord(dev, ref, t)
    ELSE MeasuredRecord(dev, readings, ref, t)

\* Storing the record in place of the device's list.
AppendRecordOverwriting(records, dev, record) == Put(records, dev, <<record>>)

\* self.calibration_records[device_id].append(record), creating the list first
\* when the device has none.
AppendRecord(records, dev, record) ==
    Put(records, dev,
        Append(IF dev \in DOMAIN records THEN records[dev] ELSE << >>, record))

\* `if reading and "a" in reading.values and "b" in reading.values:
\*      readings.append(reading)`
Collect(readings, reading, type) ==
    IF reading # << >> /\ Fields(type) \subseteq DOMAIN reading[1].values
    THEN Append(readings, reading[1])
    ELSE readings

\* Reference values callers pass: the ones of the automatic calibration.
RefValues(type) ==
    IF type = "blood_pressure"
    THEN { [systolic |-> 120, diastolic |-> 80] }
    ELSE { [spo2 |-> 98, pulse_rate |-> 72] }

LowestIdle(r) ==
    /\ run[r].pc = "idle"
    /\ \A q \in Runs : q < r => run[q].pc # "idle"

\* `reading = await device.read_data()` of run r, up to the await: the run is
\* suspended inside read_data, or read_data returned None at once and the run
\* is suspended in the sleep between samples.
CallReadData(r, d, state) ==
    IF ReadDataSuspends(d)
    THEN /\ status' = [status EXCEPT ![d] = "reading"]
         /\ reader' = [reader EXCEPT ![d] = <<"run", r>>]
         /\ run' = [run EXCEPT ![r] = [state EXCEPT !.pc = "inread"]]
    ELSE /\ UNCHANGED << status, reader >>
         /\ run' = [run EXCEPT ![r] = [state EXCEPT !.pc = "sleep"]]

\* The run ends: the record is appended to the ledger and returned.
Finish(r, state, record) ==
    /\ calibration_records' = AppendRecord(calibration_records, state.dev, record)
    /\ run' = [run EXCEPT ![r] = [state EXCEPT !.pc = "done", !.result = <<record>>]]

\* The validation both calibrate_* procedures start with: the device is in the
\* table and of the type the procedure expects.
PassesValidation(dev, type) ==
    /\ dev \in DOMAIN devices
    /\ TypeOf(dev) = type

\* calibrate_blood_pressure_monitor(dev, ref.systolic, ref.diastolic) up to
\* its first await: the device is looked up and its type checked (any other
\* device raises ValueError and nothing changes), then the first reading is
\* requested.
CalibrateBP(r, dev, ref) ==
    /\ LowestIdle(r)
    /\ PassesValidation(dev, "blood_pressure")
    /\ ref \in RefValues("blood_pressure")
    /\ CallReadData(r, devices[dev],
                    [IdleRun EXCEPT !.dev = dev, !.drv = devices[dev], !.ref = ref])
    /\ UNCHANGED << constructed, devOf, client, subscribed, callbacks, connecting,
                    disc, devices >>
    /\ UNCHANGED << BLE_AVAILABLE, codec, managerVars, clockVars, calibration_records,
                    readingVars, monitorVars >>

\* calibrate_pulse_oximeter(dev, ref.spo2, ref.pulse_rate): PulseOximeterDriver
\* inherits DeviceDriver.read_data, which raises NotImplementedError; the
\* except block records the failure and the call returns without suspending.
CalibratePLX(r, dev, ref) ==
    /\ LowestIdle(r)
    /\ PassesValidation(dev, "pulse_oximeter")
    /\ ref \in RefValues("pulse_oximeter")
    /\ Finish(r, [IdleRun EXCEPT !.dev = dev, !.drv = devices[dev], !.ref = ref],
              ErrorRecord(dev, ref, now))
    /\ UNCHANGED << BLE_AVAILABLE, codec, managerVars, driverVars, clockVars, readingVars,
                    monitorVars >>

\* calibrate_blood_pressure_monitor / calibrate_pulse_oximeter (the one that
\* expects `type`) called for a device that is not in the table or is of
\* another type: `raise ValueError(...)` before the try block, so nothing is
\* appended and the driver is not touched.  The status of the driver is not
\* looked at.
CalibrateRejected(r, dev, type, ref) ==
    /\ LowestIdle(r)
    /\ ref \in RefValues(type)
    /\ ~PassesValidation(dev, type)
    /\ run' = [run EXCEPT ![r] = [IdleRun EXCEPT !.pc = "rejected", !.dev = dev,
                                                 !.ref = ref]]
    /\ UNCHANGED << BLE_AVAILABLE, codec, managerVars, driverVars, clockVars,
                    calibration_records, readingVars,
                    monitorVars >>

\* read_data's sleep is over inside run r: the status is written back and
\* None returned; the run goes on to asyncio.sleep(60).
CalReadWake(r) ==
    /\ run[r].pc = "inread"
    /\ LET d == run[r].drv IN
        /\ status' = [status EXCEPT ![d] = StatusAfterRead(d)]
        /\ reader' = [reader EXCEPT ![d] = << >>]
    /\ run' = [run EXCEPT ![r] =
                 [@ EXCEPT !.pc = "sleep",
                           !.readings = Collect(@, ReadDataResult, TypeOf(run[r].dev))]]
    /\ UNCHANGED << constructed, devOf, client, subscribed, callbacks, connecting,
                    disc, devices >>
    /\ UNCHANGED << BLE_AVAILABLE, codec, managerVars, clockVars, calibration_records,
                    readingVars, monitorVars >>

\* The sleep between samples is over: the next reading is requested, or, after
\* the last sample, the record is computed and appended.
CalSleepWake(r) ==
    /\ run[r].pc = "sleep"
    /\ LET state == [run[r] EXCEPT !.i = @ + 1]
           type == TypeOf(state.dev)
       IN  IF state.i < Samples(type)
           THEN IF type = "blood_pressure"
                THEN /\ CallReadData(r, state.drv, state)
                     /\ UNCHANGED calibration_records
                ELSE /\ Finish(r, state, ErrorRecord(state.dev, state.ref, now))
                     /\ UNCHANGED << status, reader >>
           ELSE /\ Finish(r, state,
                          FinalRecord(state.dev, state.readings, state.ref, now))
                /\ UNCHANGED << status, reader >>
    /\ UNCHANGED << constructed, devOf, client, subscribed, callbacks, connecting,
                    disc, devices >>
    /\ UNCHANGED << BLE_AVAILABLE, codec, managerVars, clockVars, readingVars, monitorVars >>

\* DeviceCalibrator.check_calibration_status(dev) called at time t.
CheckCalibrationStatusAt(dev, records, table, t) ==
    IF dev \notin DOMAIN records THEN "unknown"
    ELSE IF records[dev] = << >> THEN "needs_calibration"
    ELSE LET rs == records[dev]
             \* max(records, key=calibration_date): the first of the latest
             k == CHOOSE i \in 1..Len(rs) :
                    /\ \A j \in 1..Len(rs) : rs[j].calibration_date <= rs[i].calibration_date
                    /\ \A j \in 1..(i - 1) : rs[j].calibration_date < rs[i].calibration_date
             latest_record == rs[k]
         IN  IF dev \notin DOMAIN table THEN "unknown"
             ELSE LET days_since_calibration ==
                          (t - latest_record.calibration_date) \div HoursPerDay
                  IN  IF days_since_calibration > IntervalDays(TypeOf(dev))
                      THEN "needs_calibration"
                      ELSE latest_record.status

check_calibration_status(dev) ==
    CheckCalibrationStatusAt(dev, calibration_records, devices, now)

\* get_calibration_history(dev)
get_calibration_history(dev) ==
    IF dev \in DOMAIN calibration_records THEN calibration_records[dev] ELSE << >>

\* Time passes: by half a day, or by 365 days and a half.
ClockDeltas == {12, 365 * HoursPerDay + 12}

AdvanceClock(delta) ==
    /\ clockSteps < MaxClockSteps
    /\ delta \in ClockDeltas
    /\ now' = now + delta
    /\ clockSteps' = clockSteps + 1
    /\ UNCHANGED << BLE_AVAILABLE, codec, managerVars, driverVars, calVars, readingVars,
                    monitorVars >>

----------------------------------------------------------------------------
(***************************************************************************)
(* DeviceHealthMonitor.  Quality scores are in tenths.                     *)
(***************************************************************************)
WINDOW_HOURS == 24

\* A score that tells connected from everything else.
StatusQualityBinary(st) == IF st = "connected" THEN 8 ELSE 0

\* The quality score _check_device_health derives from the driver status.
StatusQuality(st) ==
    IF st = "error" THEN 0
    ELSE IF st = "disconnected" THEN 0
    ELSE IF st = "connected" THEN 8
    ELSE 6

\* _check_device_health(dev, driver d) at time t: append the sample, then keep
\* the samples of the last 24 hours.
CheckDeviceHealth(metrics, dev, d, t) ==
    LET sample == [device_id |-> dev, timestamp |-> t,
                   quality_score |-> StatusQuality(status[d]),
                   battery_level |-> NoneInt]
        appended == Append(IF dev \in DOMAIN metrics THEN metrics[dev] ELSE << >>, sample)
    IN  SelectSeq(appended, LAMBDA m : m.timestamp > t - WINDOW_HOURS)

\* A polling loop that never looks at the flag.
LoopContinuesAlways == TRUE

\* A polling loop that gives up after its first tick.
LoopContinuesOnce == monitoring_active /\ ticks = 0

\* The condition of `while self.monitoring_active`.
LoopContinues == monitoring_active

\* start_monitoring(): set the flag and create a _monitoring_loop task.
StartMonitoring ==
    /\ starts < MaxStarts
    /\ starts' = starts + 1
    /\ monitoring_active' = TRUE
    /\ loops' = loops + 1
    /\ UNCHANGED << ticks, health_metrics, iterating >>
    /\ UNCHANGED << BLE_AVAILABLE, codec, managerVars, driverVars, clockVars, calVars,
                    readingVars >>

\* stop_monitoring(): clear the flag.
StopMonitoring ==
    /\ monitoring_active
    /\ monitoring_active' = FALSE
    /\ UNCHANGED << loops, starts, ticks, health_metrics, iterating >>
    /\ UNCHANGED << BLE_AVAILABLE, codec, managerVars, driverVars, clockVars, calVars,
                    readingVars >>

\* A loop that gives up the event loop between two devices.
IterationSuspendsAlways(kind) == TRUE

\* Whether the body of a loop over the table can suspend.  The tick awaits
\* _check_device_health, whose only await is device.get_battery_level(), a
\* method no driver has; the report awaits get_device_health and
\* get_health_metrics, the status endpoint these and check_calibration_status,
\* and none of them contains an await.  Awaiting a coroutine that never
\* suspends does not give up the event loop.
IterationSuspends(kind) == FALSE

\* A loop of the kind is entered over the current table: it runs to its end,
\* or is left suspended inside its body.
Iterate(kind) ==
    iterating' = [iterating EXCEPT ![kind] =
                    IF IterationSuspends(kind) /\ DOMAIN devices # {} THEN @ + 1 ELSE @]

\* A loop suspended inside its body is resumed and ends.
IterateResume(kind) ==
    /\ iterating[kind] > 0
    /\ iterating' = [iterating EXCEPT ![kind] = @ - 1]

\* One _monitoring_loop task runs from its creation, or from the end of its
\* sleep, to its next sleep or to its end: it tests the flag and, if set,
\* checks every device of the table (resume: it was suspended inside the
\* check of a device instead).
LoopStep ==
    /\ loops > 0
    /\ \E resume \in BOOLEAN :
         IF resume
         THEN /\ IterateResume("tick")
              /\ UNCHANGED << loops, ticks, health_metrics >>
         ELSE /\ loops > iterating["tick"]
              /\ IF LoopContinues
                 THEN /\ ticks < MaxTicks
                      /\ ticks' = ticks + 1
                      /\ health_metrics' =
                           [dev \in DOMAIN health_metrics \cup DOMAIN devices |->
                              IF dev \in DOMAIN devices
                              THEN CheckDeviceHealth(health_metrics, dev, devices[dev], now)
                              ELSE health_metrics[dev]]
                      /\ Iterate("tick")
                      /\ UNCHANGED loops
                 ELSE /\ loops' = loops - 1
                      /\ UNCHANGED << ticks, health_metrics, iterating >>
    /\ UNCHANGED << monitoring_active, starts >>
    /\ UNCHANGED << BLE_AVAILABLE, codec, managerVars, driverVars, clockVars, calVars,
                    readingVars >>

\* A health status with the healthy threshold exclusive.
GetDeviceHealthStrict(metrics, dev) ==
    IF dev \notin DOMAIN metrics THEN "offline"
    ELSE IF metrics[dev] = << >> THEN "offline"
    ELSE IF metrics[dev][Len(metrics[dev])].quality_score > 8 THEN "healthy"
    ELSE IF metrics[dev][Len(metrics[dev])].quality_score >= 6 THEN "warning"
    ELSE "critical"

\* get_device_health(dev), on the samples kept: quality scores are in tenths.
GetDeviceHealth(metrics, dev) ==
    IF dev \notin DOMAIN metrics THEN "offline"
    ELSE IF metrics[dev] = << >> THEN "offline"
    ELSE LET latest_metric == metrics[dev][Len(metrics[dev])]
         IN  IF latest_metric.quality_score >= 8 THEN "healthy"
             ELSE IF latest_metric.quality_score >= 6 THEN "warning"
             ELSE "critical"

get_device_health(dev) == GetDeviceHealth(health_metrics, dev)

REPORT_HOURS == 1          \* get_health_metrics(device_id, 1)
REPORT_SAMPLES == 10       \* recent_metrics[-10:]

\* get_health_metrics(dev, hours) at time t: the kept samples younger than
\* `hours` hours.
GetHealthMetrics(metrics, dev, hours, t) ==
    IF dev \notin DOMAIN metrics THEN << >>
    ELSE SelectSeq(metrics[dev], LAMBDA m : m.timestamp > t - hours)

\* seq[-n:]
LastN(seq, n) ==
    IF Len(seq) <= n THEN seq ELSE SubSeq(seq, Len(seq) - n + 1, Len(seq))

\* What generate_health_report() returns at time t: the report of every
\* device of the table and the summary counts.
GenerateHealthReport(metrics, table, t) ==
    LET health(dev) == GetDeviceHealth(metrics, dev)
        bucket(h) == Cardinality({dev \in DOMAIN table : health(dev) = h})
    IN  [devices |->
            [dev \in DOMAIN table |->
                [health_status |-> health(dev),
                 current_status |-> status[table[dev]],
                 recent_metrics |->
                     LastN(GetHealthMetrics(metrics, dev, REPORT_HOURS, t), REPORT_SAMPLES)]],
         summary |->
            [total_devices |-> Cardinality(DOMAIN table),
             healthy |-> bucket("healthy"),
             warning |-> bucket("warning"),
             critical |-> bucket("critical"),
             offline |-> bucket("offline")]]

generate_health_report == GenerateHealthReport(health_metrics, devices, now)

\* generate_health_report() and the status endpoint get_devices_status(): a
\* loop over the table that reads the health, the metrics and (the endpoint)
\* the calibration status of each device and writes nothing.
ReadTable(kind) ==
    /\ kind \in {"report", "status"}
    /\ \E resume \in BOOLEAN :
         IF resume
         THEN IterateResume(kind)
         ELSE /\ iterating[kind] < MaxIter
              /\ Iterate(kind)
    /\ UNCHANGED << monitoring_active, loops, starts, ticks, health_metrics >>
    /\ UNCHANGED << BLE_AVAILABLE, codec, managerVars, driverVars, clockVars, calVars,
                    readingVars >>

----------------------------------------------------------------------------
(***************************************************************************)
(* Specifications.                                                         *)
(***************************************************************************)

\* The drivers under the manager's operations, reads and notifications.
NextDriver ==
    \/ \E dev \in DeviceIds : ConnectBegin(dev)
    \/ \E dev \in DeviceIds : ConnectUnavailable(dev)
    \/ \E d \in Drivers : ConnectSucceed(d)
    \/ \E d \in Drivers, linked \in BOOLEAN : ConnectFail(d, linked)
    \/ \E d \in Drivers : LinkLost(d)
    \/ \E dev \in DeviceIds : DisconnectBegin(dev)
    \/ \E d \in Drivers, ok \in BOOLEAN : DisconnectFinish(d, ok)
    \/ \E dev \in DeviceIds : ReadBegin(dev)
    \/ \E d \in Drivers : ReadWake(d)
    \/ \E d \in Drivers : \E data \in Payloads(TypeOf(devOf[d])) : Notify(d, data, MaxNotifs)

SpecDriver == Init /\ [][NextDriver]_vars

\* The device manager's own operations on blood-pressure and thermometer
\* devices: connecting, disconnecting known and unknown ids, shutting down.
NextManager ==
    \/ \E dev \in ManagerDeviceIds : ConnectBegin(dev)
    \/ \E dev \in ManagerDeviceIds : ConnectUnavailable(dev)
    \/ \E d \in Drivers : ConnectSucceed(d)
    \/ \E d \in Drivers, linked \in BOOLEAN : ConnectFail(d, linked)
    \/ \E d \in Drivers : LinkLost(d)
    \/ \E dev \in ManagerDeviceIds : DisconnectBegin(dev)
    \/ \E dev \in ManagerDeviceIds : DisconnectUnknown(dev)
    \/ \E d \in Drivers, ok \in BOOLEAN : DisconnectFinish(d, ok)
    \/ \E order \in UNION { Orders([dev \in S |-> 0]) : S \in SUBSET ManagerDeviceIds } :
          ShutdownBegin(order)
    \/ \E ok \in BOOLEAN : ShutdownResume(ok)

SpecManager == Init /\ [][NextManager]_vars

\* Calibration runs against connecting and disconnecting devices, over time.
NextCal ==
    \/ \E dev \in DeviceIds : ConnectBegin(dev)
    \/ \E d \in Drivers : ConnectSucceed(d)
    \/ \E dev \in DeviceIds : DisconnectBegin(dev)
    \/ \E d \in Drivers, ok \in BOOLEAN : DisconnectFinish(d, ok)
    \/ \E r \in Runs, dev \in DeviceIds :
          \E ref \in RefValues("blood_pressure") : CalibrateBP(r, dev, ref)
    \/ \E r \in Runs, dev \in DeviceIds :
          \E ref \in RefValues("pulse_oximeter") : CalibratePLX(r, dev, ref)
    \/ \E r \in Runs, dev \in DeviceIds, type \in {"blood_pressure", "pulse_oximeter"} :
          \E ref \in RefValues(type) : CalibrateRejected(r, dev, type, ref)
    \/ \E r \in Runs : CalReadWake(r)
    \/ \E r \in Runs : CalSleepWake(r)
    \/ \E delta \in ClockDeltas : AdvanceClock(delta)

SpecCal == Init /\ [][NextCal]_vars

\* One calibration of a connected device while it sends notifications.
NextEndToEnd ==
    \/ \E dev \in DeviceIds : ConnectBegin(dev)
    \/ \E d \in Drivers : ConnectSucceed(d)
    \/ \E d \in Drivers : \E data \in Payloads(TypeOf(devOf[d])) : Notify(d, data, BP_SAMPLES)
    \/ \E r \in Runs, dev \in DeviceIds :
          \E ref \in RefValues("blood_pressure") : CalibrateBP(r, dev, ref)
    \/ \E r \in Runs : CalReadWake(r)
    \/ \E r \in Runs : CalSleepWake(r)

SpecEndToEnd == Init /\ [][NextEndToEnd]_vars

\* The health monitor over a table that changes.
NextMonitor ==
    \/ \E dev \in DeviceIds : ConnectBegin(dev)
    \/ \E d \in Drivers : ConnectSucceed(d)
    \/ \E dev \in DeviceIds : DisconnectBegin(dev)
    \/ \E d \in Drivers, ok \in BOOLEAN : DisconnectFinish(d, ok)
    \/ StartMonitoring
    \/ StopMonitoring
    \/ LoopStep
    \/ \E kind \in {"report", "status"} : ReadTable(kind)

SpecMonitor == Init /\ [][NextMonitor]_vars /\ WF_vars(LoopStep)

\* The averaging and threshold computation on its inputs: a run that has
\* collected any list of decoded readings and is in its last sleep.
RECURSIVE Repeat(_, _)
Repeat(x, n) == IF n = 0 THEN << >> ELSE <<x>> \o Repeat(x, n - 1)

\* Readings as the handlers decode them: systolic/diastolic in mmHg, SpO2 as
\* raw hundredths (9800, 10000, 10001) with the pulse rate.
InputReadings(type) ==
    IF type = "blood_pressure"
    THEN { DecodeBP(<<0, sd[1], 0, sd[2], 0, 90, 0>>)[1] :
             sd \in { <<120, 80>>, <<123, 83>>, <<124, 80>>, <<116, 84>> } }
    ELSE { DecodePLX(<<0, sp[1] % 256, sp[1] \div 256, sp[2], 0>>)[1] :
             sp \in { <<9800, 72>>, <<10000, 75>>, <<10001, 72>>, <<9600, 76>> } }

InputReadingLists(type) ==
    { Repeat(a, n) \o Repeat(b, m) :
        a \in InputReadings(type), b \in InputReadings(type),
        n \in 0..Samples(type), m \in 0..Samples(type) }

InitCalc ==
    /\ BLE_AVAILABLE = TRUE
    /\ now = 0
    /\ clockSteps = 0
    /\ constructed = 2
    /\ devOf = [d \in Drivers |-> IF d = 1 THEN "bp1" ELSE IF d = 2 THEN "ox1" ELSE None]
    /\ status = [d \in Drivers |-> IF d <= 2 THEN "connected" ELSE "disconnected"]
    /\ client = [d \in Drivers |-> IF d <= 2 THEN "connected" ELSE "none"]
    /\ subscribed = [d \in Drivers |-> d <= 2]
    /\ callbacks = [d \in Drivers |-> IF d <= 2 THEN 1 ELSE 0]
    /\ connecting = {}
    /\ disc = [d \in Drivers |-> 0]
    /\ reader = [d \in Drivers |-> << >>]
    /\ devices = [dev \in DeviceIds |-> IF dev = "bp1" THEN 1 ELSE 2]
    /\ calibration_records = EmptyDict
    /\ \E dev \in DeviceIds :
         \E readings \in InputReadingLists(TypeOf(dev)) :
           \E ref \in RefValues(TypeOf(dev)) :
             /\ Len(readings) <= Samples(TypeOf(dev))
             /\ run = [r \in Runs |->
                         IF r = 1
                         THEN [IdleRun EXCEPT !.pc = "sleep", !.dev = dev,
                                              !.drv = devices[dev],
                                              !.i = Samples(TypeOf(dev)) - 1,
                                              !.readings = readings, !.ref = ref]
                         ELSE IdleRun]
    /\ decoded = [dev \in DeviceIds \cup CrossDeviceIds |-> 0]
    /\ sink = [dev \in DeviceIds \cup CrossDeviceIds |-> 0]
    /\ unawaited = [dev \in DeviceIds \cup CrossDeviceIds |-> 0]
    /\ notifs = 0
    /\ monitoring_active = FALSE
    /\ loops = 0
    /\ starts = 0
    /\ ticks = 0
    /\ health_metrics = EmptyDict
    /\ iterating = [kind \in IterationKinds |-> 0]
    /\ returned = << >>
    /\ shutdown = IdleShutdown
    /\ codec = IdleCodec

NextCalc ==
    \/ \E r \in Runs, dev \in DeviceIds :
          \E ref \in RefValues("blood_pressure") : CalibrateBP(r, dev, ref)
    \/ \E r \in Runs, dev \in DeviceIds :
          \E ref \in RefValues("pulse_oximeter") : CalibratePLX(r, dev, ref)
    \/ \E r \in Runs : CalReadWake(r)
    \/ \E r \in Runs : CalSleepWake(r)

SpecCalc == InitCalc /\ [][NextCalc]_vars

\* Well-formed blood-pressure frames: the flags byte with the unit bit and the
\* pulse-rate bit, systolic, diastolic and mean pressure as 16-bit
\* little-endian values, and the pulse rate when its bit is set.  The raw
\* values sit on and next to the limits 50, 250, 30 and 150 and, for kPa
\* frames (value / 1000.0), around 50.000 and 30.000.
RawSystolic == {49, 50, 99, 120, 181, 250, 251, 49999, 60000}

RawDiastolic == {29, 30, 80, 100, 150, 151, 29999, 35000}

Frame(flags, systolic, diastolic) ==
    << flags, systolic % 256, systolic \div 256, diastolic % 256, diastolic \div 256, 93, 0 >>
        \o (IF Bit(flags, 2) THEN <<60, 0>> ELSE << >>)

Frames ==
    { Frame(flags, systolic, diastolic) :
        flags \in {0, 1, 4, 5}, systolic \in RawSystolic, diastolic \in RawDiastolic }

InitDecode ==
    /\ BLE_AVAILABLE = TRUE
    /\ now = 0
    /\ clockSteps = 0
    /\ constructed = 0
    /\ devOf = [d \in Drivers |-> None]
    /\ status = [d \in Drivers |-> "disconnected"]
    /\ client = [d \in Drivers |-> "none"]
    /\ subscribed = [d \in Drivers |-> FALSE]
    /\ callbacks = [d \in Drivers |-> 0]
    /\ connecting = {}
    /\ disc = [d \in Drivers |-> 0]
    /\ reader = [d \in Drivers |-> << >>]
    /\ devices = EmptyDict
    /\ calibration_records = EmptyDict
    /\ run = [r \in Runs |-> IdleRun]
    /\ decoded = [dev \in DeviceIds \cup CrossDeviceIds |-> 0]
    /\ sink = [dev \in DeviceIds \cup CrossDeviceIds |-> 0]
    /\ unawaited = [dev \in DeviceIds \cup CrossDeviceIds |-> 0]
    /\ notifs = 0
    /\ monitoring_active = FALSE
    /\ loops = 0
    /\ starts = 0
    /\ ticks = 0
    /\ health_metrics = EmptyDict
    /\ iterating = [kind \in IterationKinds |-> 0]
    /\ returned = << >>
    /\ shutdown = IdleShutdown
    /\ \E frame \in Frames : codec = [IdleCodec EXCEPT !.frame = frame]

\* _handle_bp_measurement on the frame: the reading it hands to
\* _notify_callbacks, or none when the try block raises.
HandleBPMeasurement ==
    /\ codec.frame # << >>
    /\ ~codec.handled
    /\ codec' = [codec EXCEPT !.handled = TRUE, !.reading = DecodeBP(codec.frame)]
    /\ UNCHANGED << BLE_AVAILABLE, managerVars, driverVars, clockVars, calVars, readingVars,
                    monitorVars >>

\* The blood-pressure decoder on its inputs.
NextDecode == HandleBPMeasurement

SpecDecode == InitDecode /\ [][NextDecode]_vars

\* Two blood-pressure monitors: one calibration run on bp1, with reads,
\* notifications of bp2, connects, disconnects and the health monitor side by
\* side.
NextCross ==
    \/ \E dev \in CrossDeviceIds : ConnectBegin(dev)
    \/ \E d \in Drivers : ConnectSucceed(d)
    \/ \E dev \in CrossDeviceIds : DisconnectBegin(dev)
    \/ \E d \in Drivers, ok \in BOOLEAN : DisconnectFinish(d, ok)
    \/ \E dev \in CrossDeviceIds : ReadBegin(dev)
    \/ \E d \in Drivers : ReadWake(d)
    \/ \E d \in Drivers : devOf[d] = "bp2" /\ Notify(d, <<0, 120, 0, 80, 0, 93, 0>>, MaxNotifs)
    \/ \E ref \in RefValues("blood_pressure") : CalibrateBP(1, "bp1", ref)
    \/ \E r \in Runs : CalReadWake(r)
    \/ \E r \in Runs : CalSleepWake(r)
    \/ StartMonitoring
    \/ LoopStep

SpecCross == Init /\ [][NextCross]_vars

\* The health monitor on its inputs: both devices are in the table, their
\* drivers in any status, and one polling loop is alive.
InitHealth ==
    /\ BLE_AVAILABLE = TRUE
    /\ now = 0
    /\ clockSteps = 0
    /\ constructed = 2
    /\ devOf = [d \in Drivers |-> IF d = 1 THEN "bp1" ELSE IF d = 2 THEN "ox1" ELSE None]
    /\ status \in [Drivers -> DeviceStatus]
    /\ \A d \in Drivers : d > 2 => status[d] = "disconnected"
    /\ client = [d \in Drivers |->
                   IF d > 2 THEN "none"
                   ELSE IF status[d] \in {"connected", "reading", "calibrating"}
                        THEN "connected" ELSE "created"]
    /\ subscribed = [d \in Drivers |-> client[d] = "connected"]
    /\ callbacks = [d \in Drivers |-> IF d <= 2 THEN 1 ELSE 0]
    /\ connecting = {}
    /\ disc = [d \in Drivers |-> 0]
    /\ reader = [d \in Drivers |-> << >>]
    /\ devices = [dev \in DeviceIds |-> IF dev = "bp1" THEN 1 ELSE 2]
    /\ calibration_records = EmptyDict
    /\ run = [r \in Runs |-> IdleRun]
    /\ decoded = [dev \in DeviceIds \cup CrossDeviceIds |-> 0]
    /\ sink = [dev \in DeviceIds \cup CrossDeviceIds |-> 0]
    /\ unawaited = [dev \in DeviceIds \cup CrossDeviceIds |-> 0]
    /\ notifs = 0
    /\ monitoring_active = TRUE
    /\ loops = 1
    /\ starts = 1
    /\ ticks = 0
    /\ health_metrics = EmptyDict
    /\ iterating = [kind \in IterationKinds |-> 0]
    /\ returned = << >>
    /\ shutdown = IdleShutdown
    /\ codec = IdleCodec

NextHealth ==
    \/ \E dev \in DeviceIds : DisconnectBegin(dev)
    \/ \E d \in Drivers, ok \in BOOLEAN : DisconnectFinish(d, ok)
    \/ StartMonitoring
    \/ StopMonitoring
    \/ LoopStep
    \/ \E kind \in {"report", "status"} : ReadTable(kind)
    \/ \E delta \in ClockDeltas : AdvanceClock(delta)

SpecHealth == InitHealth /\ [][NextHealth]_vars

----------------------------------------------------------------------------
(***************************************************************************)
(* Claims.                                                                 *)
(***************************************************************************)

\* The calibration ledger of a device: the ordered list of its records.
Ledger(records, dev) == IF dev \in DOMAIN records THEN records[dev] ELSE << >>

PermittedEdge(from, to) ==
    \/ <<from, to>> \in { <<"disconnected", "connecting">>, <<"connecting", "connected">>,
                          <<"connected", "reading">>, <<"reading", "connected">>,
                          <<"connected", "calibrating">>, <<"calibrating", "connected">> }
    \/ to = "error"

\* C1: every driver starts disconnected, and every change of a driver's status
\* follows a permitted edge: disconnected->connecting, connecting->connected,
\* connected->reading, reading->connected, connected->calibrating,
\* calibrating->connected, anything->error, or anything->disconnected in the
\* step in which a disconnect() of that driver completes.
C1_StatusFollowsPermittedEdges ==
    /\ \A d \in Drivers : status[d] = "disconnected"
    /\ [][\A d \in Drivers :
            status'[d] # status[d] =>
                \/ PermittedEdge(status[d], status'[d])
                \/ status'[d] = "disconnected" /\ disc'[d] < disc[d]]_vars

\* C2: a blood-pressure calibration against (120, 80) during which the device
\* delivered 5 notifications with systolic in [118,122] and diastolic 80 ends
\* with a record of status calibrated, appended to the ledger.
C2_EndToEndCalibrated ==
    \A r \in Runs :
        (/\ run[r].pc = "done"
         /\ run[r].seen >= BP_SAMPLES
         /\ run[r].ref = [systolic |-> 120, diastolic |-> 80])
        => /\ run[r].result[1].status = "calibrated"
           /\ \E k \in 1..Len(Ledger(calibration_records, run[r].dev)) :
                 calibration_records[run[r].dev][k] = run[r].result[1]

\* C3: at most one polling loop is alive at any time, whatever the sequence of
\* start_monitoring() and stop_monitoring() calls.
C3_AtMostOnePollingLoop == loops <= 1

\* C4: from a state in which monitoring is inactive no step appends a health
\* sample, and once monitoring is inactive every polling loop ends unless
\* monitoring is started again.
C4_StopEndsPolling ==
    /\ [][~monitoring_active => health_metrics' = health_metrics]_vars
    /\ (~monitoring_active ~> (monitoring_active \/ loops = 0))

\* C4 witness: monitoring was stopped after a tick sampled a device, and the
\* loop has ended.
C4_Witness ==
    /\ ~monitoring_active
    /\ starts > 0
    /\ loops = 0
    /\ \E dev \in DOMAIN health_metrics : Len(health_metrics[dev]) > 0

\* C5: no decoded notification of a manager-connected driver is discarded:
\* each one has been handed to store_device_reading, exactly once.
C5_DecodedReadingsReachSink ==
    \A dev \in DeviceIds : unawaited[dev] = 0 /\ sink[dev] = decoded[dev]

\* C6: every step leaves each device's ledger as it was, except that a step in
\* which calibration runs of that device end appends exactly the record each
\* such run returns; nothing is ever removed, reordered or modified.
C6_LedgerAppendOnly ==
    [][\A dev \in DeviceIds :
         LET old == Ledger(calibration_records, dev)
             new == Ledger(calibration_records', dev)
             ended == {r \in Runs : run[r].pc # "done" /\ run'[r].pc = "done"
                                    /\ run'[r].dev = dev}
         IN  /\ Len(new) = Len(old) + Cardinality(ended)
             /\ SubSeq(new, 1, Len(old)) = old
             /\ \A r \in ended : new[Len(new)] = run'[r].result[1]
             /\ dev \in DOMAIN calibration_records => dev \in DOMAIN calibration_records'
      ]_vars

\* C6 witness: two runs of one device have both appended, and the device has
\* been disconnected and removed from the table since.
C6_Witness ==
    \E dev \in DeviceIds :
        /\ Len(Ledger(calibration_records, dev)) = 2
        /\ dev \notin DOMAIN devices

\* A run that has ended having collected fewer readings than the minimum.
EndedShort(r) ==
    /\ run[r].pc = "done"
    /\ Len(run[r].readings) < (IF TypeOf(run[r].dev) = "blood_pressure" THEN 3 ELSE 5)

\* C7: a run that collected fewer than 3 (blood pressure) or 5 (pulse
\* oximetry) readings returns a record of status calibration_failed with empty
\* measured and deviation values, and the step in which it ends appends that
\* record, and nothing else, to the ledger of its device.
C7_TooFewReadingsFail ==
    /\ [](\A r \in Runs :
            EndedShort(r) =>
                /\ Len(run[r].result) = 1
                /\ run[r].result[1].status = "calibration_failed"
                /\ DOMAIN run[r].result[1].measured_values = {}
                /\ DOMAIN run[r].result[1].deviation_values = {})
    /\ [][\A r \in Runs :
            (run[r].pc # "done" /\ EndedShort(r)') =>
                calibration_records'[run'[r].dev] =
                    Append(Ledger(calibration_records, run'[r].dev), run'[r].result[1])
       ]_vars

\* C7 witness: a blood-pressure run ended with exactly 2 readings.
C7_Witness ==
    \E r \in Runs :
        /\ EndedShort(r)
        /\ TypeOf(run[r].dev) = "blood_pressure"
        /\ Len(run[r].readings) = 2

\* A run that has ended having collected at least the minimum of readings.
EndedMeasured(r) ==
    /\ run[r].pc = "done"
    /\ Len(run[r].readings) >= (IF TypeOf(run[r].dev) = "blood_pressure" THEN 3 ELSE 5)

\* The thresholds as the specification tables them.
StatedThreshold(field) ==
    CASE field = "systolic" -> 3
      [] field = "diastolic" -> 3
      [] field = "spo2" -> 2
      [] field = "pulse_rate" -> 3

\* |mean of the readings' field - reference| - threshold, times the positive
\* number n * Scale(field): its sign is that of the difference itself.
Excess(r, field) ==
    LET n == Len(run[r].readings)
        unit == Scale(field)
    IN  Abs(SumField(run[r].readings, field) - n * unit * run[r].ref[field])
          - StatedThreshold(field) * n * unit

\* C8: a run with enough readings is recorded out_of_spec exactly if the mean
\* of some field deviates from its reference by strictly more than the field's
\* threshold, and calibrated otherwise (so also at a deviation equal to it).
C8_OutOfSpecIffDeviationExceeds ==
    \A r \in Runs :
        EndedMeasured(r) =>
            LET over == \E f \in Fields(TypeOf(run[r].dev)) : Excess(r, f) > 0
            IN  /\ Len(run[r].result) = 1
                /\ run[r].result[1].status = (IF over THEN "out_of_spec" ELSE "calibrated")

\* C8 witness: a blood-pressure run whose mean systolic deviates by exactly 3
\* ended calibrated.
C8_Witness ==
    \E r \in Runs :
        /\ EndedMeasured(r)
        /\ TypeOf(run[r].dev) = "blood_pressure"
        /\ Excess(r, "systolic") = 0
        /\ run[r].result[1].status = "calibrated"

\* The due date of a record: calibration_date + the interval of the device
\* type (365 days for blood pressure, 180 days for pulse oximetry), in hours.
DueDate(record, dev) ==
    record.calibration_date
        + (IF TypeOf(dev) = "blood_pressure" THEN 365 ELSE 180) * 24

\* C9: check_calibration_status answers unknown exactly for a device without
\* records, and the status of the most recent record whenever that record has
\* not expired -- whether or not the device is still in the manager's table.
C9_StatusFollowsLedger ==
    \A dev \in DeviceIds :
        LET records == Ledger(calibration_records, dev) IN
            /\ (check_calibration_status(dev) = "unknown") <=> (records = << >>)
            /\ (records # << >> /\ now <= DueDate(records[Len(records)], dev))
                  => check_calibration_status(dev) = records[Len(records)].status

\* C10: check_calibration_status answers needs_calibration whenever the
\* current time is past the due date of the most recent record, whatever
\* status that record stores.
C10_PastDueNeedsCalibration ==
    \A dev \in DeviceIds :
        LET records == Ledger(calibration_records, dev) IN
            (records # << >> /\ now > DueDate(records[Len(records)], dev))
                => check_calibration_status(dev) = "needs_calibration"

\* The device type a run's procedure expects, from its reference values.
ExpectedType(state) ==
    IF "systolic" \in DOMAIN state.ref THEN "blood_pressure" ELSE "pulse_oximeter"

\* A run that takes its first step (the call of calibrate_*) in this step.
Called(r) == run[r].pc = "idle" /\ run'[r].pc # "idle"

\* C11: a calibrate_* call for a device that is not in the table, not of the
\* expected type or not in status connected is rejected before any reading is
\* requested from the driver, and leaves the ledger and every driver's status
\* unchanged.
C11_InvalidDeviceRejected ==
    [][\A r \in Runs :
         LET dev == run'[r].dev
             valid == /\ dev \in DOMAIN devices
                      /\ TypeOf(dev) = ExpectedType(run'[r])
                      /\ status[devices[dev]] = "connected"
         IN  (Called(r) /\ ~valid) =>
                 /\ run'[r].pc = "rejected"
                 /\ calibration_records' = calibration_records
                 /\ status' = status
                 /\ reader' = reader
      ]_vars

\* connect() of driver d returns in this step: it was suspended inside
\* connect(), or it was constructed and connect() returned without suspending.
ConnectReturns(d) ==
    \/ d \in connecting /\ d \notin connecting'
    \/ constructed = d - 1 /\ constructed' = d /\ d \notin connecting'

\* connect() returned True: connect_device registered its callback.
ConnectReturnsTrue(d) == ConnectReturns(d) /\ callbacks'[d] = callbacks[d] + 1

\* C12: when connect() returns False the driver's status is error, on every
\* failure path; when it returns True the status is connected and the
\* notification subscription is in place.
C12_ConnectOutcomeStatus ==
    [][\A d \in Drivers :
         ConnectReturns(d) =>
             IF ConnectReturnsTrue(d)
             THEN status'[d] = "connected" /\ subscribed'[d]
             ELSE status'[d] = "error"
      ]_vars

\* disconnect() of driver d returns in this step: after its awaits, or at once
\* because the driver has no connected client (disconnect_device then deletes
\* the table entry in the same step).
DisconnectReturns(d) ==
    \/ disc'[d] < disc[d]
    \/ /\ disc' = disc
       /\ devOf[d] \in DOMAIN devices
       /\ devices[devOf[d]] = d
       /\ devOf[d] \notin DOMAIN devices'

\* C13: from every status, when disconnect() returns the driver's status is
\* disconnected and it is unsubscribed.
C13_DisconnectReachesDisconnected ==
    [][\A d \in Drivers :
         DisconnectReturns(d) => status'[d] = "disconnected" /\ ~subscribed'[d]
      ]_vars

\* A reading of driver d's device is decoded in this step, d being the only
\* subscribed driver of that device.
NotificationArrives(d) ==
    /\ subscribed[d]
    /\ decoded'[devOf[d]] = decoded[devOf[d]] + 1
    /\ \A e \in Drivers : (subscribed[e] /\ devOf[e] = devOf[d]) => e = d

\* C14: read_data() on a connected driver sets the status to reading and
\* suspends; the suspension ends when a notification arrives or when the 30
\* seconds are over, whichever is first, and the status is then connected
\* again; the call itself returns no reading.
C14_ReadEndsAtNotificationOrTimeout ==
    /\ ReadDataResult = << >>
    /\ [][\A d \in Drivers :
             /\ (reader[d] = << >> /\ reader'[d] # << >>) =>
                    status[d] = "connected" /\ status'[d] = "reading"
             /\ (reader[d] # << >> /\ reader'[d] = << >>) => status'[d] = "connected"
             /\ (reader[d] # << >> /\ NotificationArrives(d)) =>
                    reader'[d] = << >> /\ status'[d] = "connected"
       ]_vars

\* The length of the fields every payload of the type carries.
FixedLength(type) == IF type = "blood_pressure" THEN 7 ELSE 5

\* C15: a notification whose payload fails to decode (it is shorter than the
\* fixed fields) leaves every driver's status and subscription and the device
\* table unchanged and calls no reading callback; a well-formed notification,
\* whatever came before it, is decoded and handed to every callback.
C15_DecodeFailureSwallowed ==
    [][\A d \in Drivers : \A data \in Payloads(TypeOf(devOf[d])) :
         Notify(d, data, MaxNotifs) =>
             IF Len(data) < FixedLength(TypeOf(devOf[d]))
             THEN /\ status' = status
                  /\ subscribed' = subscribed
                  /\ callbacks' = callbacks
                  /\ devices' = devices
                  /\ decoded' = decoded
                  /\ unawaited' = unawaited
                  /\ sink' = sink
             ELSE (data[1] = 0 /\ callbacks[d] > 0) =>
                  /\ decoded'[devOf[d]] = decoded[devOf[d]] + 1
                  /\ unawaited'[devOf[d]] + sink'[devOf[d]] =
                         unawaited[devOf[d]] + sink[devOf[d]] + callbacks[d]
      ]_vars

\* C15 witness: of two notifications delivered to the blood-pressure monitor,
\* one was dropped and one decoded, and the driver is still connected and in
\* the table.
C15_Witness ==
    /\ notifs = 2
    /\ constructed = 1
    /\ devOf[1] = "bp1"
    /\ decoded["bp1"] = 1
    /\ "bp1" \in DOMAIN devices
    /\ status[1] = "connected"

\* The length the flags byte of a blood-pressure payload declares: 7 bytes,
\* 7 more with the timestamp flag, 2 more with the pulse-rate flag.
DeclaredLength(data) ==
    7 + (IF Bit(data[1], 1) THEN 7 ELSE 0) + (IF Bit(data[1], 2) THEN 2 ELSE 0)

\* C16: a blood-pressure payload shorter than the fields its flags byte
\* declares is rejected: no reading is handed to any callback.
C16_ShortPayloadRejected ==
    [][\A d \in Drivers : \A data \in Payloads("blood_pressure") :
         (/\ TypeOf(devOf[d]) = "blood_pressure"
          /\ Notify(d, data, MaxNotifs)
          /\ Len(data) < DeclaredLength(data)) =>
             /\ decoded' = decoded
             /\ unawaited' = unawaited
             /\ sink' = sink
      ]_vars

InProgress(r) == run[r].pc \in {"inread", "sleep"}

\* C18: while a calibration run on one device is in progress, every operation
\* on another device whose own precondition holds is enabled, and so is the
\* step that completes it: connect, disconnect, read_data, notification
\* handling and the monitoring tick.
C18_NoCrossDeviceLock ==
    \A r \in Runs : \A other \in CrossDeviceIds :
        (InProgress(r) /\ other # run[r].dev) =>
            /\ (BLE_AVAILABLE /\ constructed < MaxDrivers) => ENABLED ConnectBegin(other)
            /\ (/\ other \in DOMAIN devices
                /\ client[devices[other]] = "connected" => disc[devices[other]] < MaxDisc)
                  => ENABLED DisconnectBegin(other)
            /\ (other \in DOMAIN devices /\ status[devices[other]] = "connected")
                  => ENABLED ReadBegin(other)
            /\ (loops > 0 /\ (monitoring_active => ticks < MaxTicks)) => ENABLED LoopStep
            /\ \A d \in Drivers :
                  devOf[d] = other =>
                      /\ d \in connecting => ENABLED ConnectSucceed(d)
                      /\ disc[d] > 0 => ENABLED DisconnectFinish(d, FALSE)
                      /\ reader[d] = <<"api">> => ENABLED ReadWake(d)
                      /\ (subscribed[d] /\ notifs < MaxNotifs) =>
                            \A data \in Payloads("blood_pressure") :
                                ENABLED Notify(d, data, MaxNotifs)

\* C18 witness: a run on bp1 is between two samples while bp2, connected
\* after the run began, has had a notification decoded, a monitoring sample
\* taken and a read_data call begun.
C18_Witness ==
    \E r \in Runs :
        /\ run[r].pc = "sleep"
        /\ run[r].dev = "bp1"
        /\ run[r].drv = 1
        /\ "bp2" \in DOMAIN devices
        /\ reader[devices["bp2"]] = <<"api">>
        /\ decoded["bp2"] > 0
        /\ "bp2" \in DOMAIN health_metrics
        /\ health_metrics["bp2"] # << >>

\* The samples kept for a device.
Samples_(metrics, dev) == IF dev \in DOMAIN metrics THEN metrics[dev] ELSE << >>

\* The quality score stated for a driver status, in tenths.
StatedQuality(st) ==
    IF st \in {"error", "disconnected"} THEN 0
    ELSE IF st = "connected" THEN 8
    ELSE IF st \in {"connecting", "reading", "calibrating"} THEN 6
    ELSE -1

\* A monitoring tick is taken in this step.
Tick == ticks' = ticks + 1

\* C19: a monitoring tick appends exactly one sample for every device in the
\* table, after the samples of the device still within the 24-hour window,
\* with quality score 0.0 for a driver in status error or disconnected, 0.8
\* for connected and 0.6 for connecting, reading or calibrating; it appends
\* nothing for any other device.
C19_TickSamplesEveryDevice ==
    [][Tick =>
         \A dev \in DeviceIds :
             LET old == Samples_(health_metrics, dev)
                 new == Samples_(health_metrics', dev)
                 kept == SelectSeq(old, LAMBDA m : m.timestamp > now - 24)
             IN  IF dev \in DOMAIN devices
                 THEN /\ Len(new) = Len(kept) + 1
                      /\ SubSeq(new, 1, Len(kept)) = kept
                      /\ new[Len(new)].device_id = dev
                      /\ new[Len(new)].timestamp = now
                      /\ new[Len(new)].quality_score = StatedQuality(status[devices[dev]])
                 ELSE new = old
      ]_vars

\* C19 witness: two ticks have sampled the blood-pressure monitor while it
\* was reading and the oximeter while it was in status error.
C19_Witness ==
    /\ ticks = 2
    /\ "bp1" \in DOMAIN health_metrics
    /\ "ox1" \in DOMAIN health_metrics
    /\ Len(health_metrics["bp1"]) = 2
    /\ health_metrics["bp1"][2].quality_score = 6
    /\ health_metrics["ox1"][Len(health_metrics["ox1"])].quality_score = 0

\* The health status stated for a quality score in tenths.
StatedHealth(quality_score) ==
    IF quality_score >= 8 THEN "healthy"
    ELSE IF quality_score >= 6 THEN "warning"
    ELSE "critical"

\* C20: get_device_health answers offline exactly for a device without kept
\* samples, also after stop_monitoring; otherwise it answers from the most
\* recent sample alone: healthy from 0.8, warning from 0.6, critical below; so
\* right after a tick a device sampled as connected is healthy, as
\* connecting, reading or calibrating warning, as error or disconnected
\* critical.
C20_HealthFromLatestSample ==
    /\ [](\A dev \in DeviceIds :
            LET samples == Samples_(health_metrics, dev) IN
                /\ (get_device_health(dev) = "offline") <=> (samples = << >>)
                /\ samples # << >> =>
                      get_device_health(dev) =
                          StatedHealth(samples[Len(samples)].quality_score))
    /\ [][Tick =>
            \A dev \in DOMAIN devices :
                GetDeviceHealth(health_metrics', dev) =
                    StatedHealth(StatedQuality(status[devices[dev]]))]_vars

\* C20 witness: monitoring has been stopped; the oximeter, removed from the
\* table before any tick, has no samples, and the blood-pressure monitor was
\* last sampled as connected.
C20_Witness ==
    /\ ~monitoring_active
    /\ "ox1" \notin DOMAIN health_metrics
    /\ "bp1" \in DOMAIN health_metrics
    /\ get_device_health("bp1") = "healthy"
    /\ get_device_health("ox1") = "offline"

\* C21: after every monitoring tick no kept sample of any device is older
\* than 24 hours, whether or not the device is still in the table.
C21_WindowBounded ==
    [][Tick =>
         \A dev \in DOMAIN health_metrics' :
             \A i \in 1..Len(health_metrics'[dev]) :
                 health_metrics'[dev][i].timestamp >= now - 24
      ]_vars

\* C22: generate_health_report() gives, for every device of the table, its
\* health status and its last 10 kept samples (all of them when fewer are
\* kept), and summary counts that add up to total_devices, each device being
\* counted in the bucket get_device_health answers for it.
C22_ReportCoversTable ==
    LET report == generate_health_report IN
        /\ DOMAIN report.devices = DOMAIN devices
        /\ \A dev \in DOMAIN devices :
              /\ report.devices[dev].health_status = get_device_health(dev)
              /\ report.devices[dev].recent_metrics =
                     LastN(Samples_(health_metrics, dev), 10)
        /\ report.summary.healthy + report.summary.warning
              + report.summary.critical + report.summary.offline
                 = report.summary.total_devices
        /\ \A h \in {"healthy", "warning", "critical", "offline"} :
              report.summary[h] =
                  Cardinality({dev \in DOMAIN devices : get_device_health(dev) = h})

\* A disconnect_device(dev) call for an id in the table returns in this step:
\* without suspending, or after the awaits of the driver's disconnect().
DisconnectDeviceReturns(dev) ==
    \/ DisconnectBegin(dev) /\ disc' = disc
    \/ \E d \in Drivers, ok \in BOOLEAN :
          /\ DisconnectFinish(d, ok)
          /\ devOf[d] = dev
          /\ dev \in DOMAIN devices
          /\ devices[dev] = d

\* C23: disconnect_device for an id that is not in the table returns False and
\* changes nothing; for an id in the table, whatever the driver type, it
\* disconnects the driver, removes the entry and returns True.
C23_DisconnectDeviceRemoves ==
    [][\A dev \in ManagerDeviceIds :
         /\ DisconnectUnknown(dev) =>
                /\ returned' = <<"disconnect_device", FALSE>>
                /\ UNCHANGED driverVars
         /\ DisconnectDeviceReturns(dev) =>
                /\ returned' = <<"disconnect_device", TRUE>>
                /\ dev \notin DOMAIN devices'
                /\ status'[devices[dev]] = "disconnected"
      ]_vars

\* connect() of driver d returns False in this step after the transport was
\* asked to connect: client.connect() or start_notify() raised.
TransportConnectFails(d) ==
    d \in connecting /\ d \notin connecting' /\ callbacks'[d] = callbacks[d]

\* C24: a connect_device whose transport connect fails returns False, leaves
\* the table unchanged and the driver in status error; a connection is
\* attempted once per call, by the driver constructed for the call, and never
\* again; the table gains or replaces an entry only in a step in which the
\* stored driver's connect() returned True.  (The call that finds the
\* transport library missing asks no transport to connect; its outcome is
\* the subject of C12.)
C24_FailedConnectNotInserted ==
    [][\A d \in Drivers :
         /\ TransportConnectFails(d) =>
                /\ returned' = <<"connect_device", FALSE>>
                /\ devices' = devices
                /\ status'[d] = "error"
         /\ (d \in connecting' /\ d \notin connecting) =>
                constructed = d - 1 /\ constructed' = d
         /\ \A dev \in DOMAIN devices' :
                (devices'[dev] = d /\ (dev \notin DOMAIN devices \/ devices[dev] # d)) =>
                    ConnectReturnsTrue(d)
      ]_vars

\* A connection attempt has failed: the driver is in error and is not the
\* one in the table, and connect_device returned False.
C24_FailedConnectWitness ==
    /\ returned = <<"connect_device", FALSE>>
    /\ \E d \in Drivers :
          /\ d <= constructed
          /\ client[d] # "none"
          /\ d \notin connecting
          /\ status[d] = "error"
          /\ \A dev \in DOMAIN devices : devices[dev] # d

\* C25: every record in a ledger carries next_calibration_due equal to its
\* own calibration_date plus the interval of the device type (blood pressure
\* 365 days, pulse oximetry 180 days).
C25_DueDateOnEveryRecord ==
    \A dev \in DOMAIN calibration_records :
        \A i \in 1..Len(calibration_records[dev]) :
            calibration_records[dev][i].next_calibration_due
                = DueDate(calibration_records[dev][i], dev)

\* The pressure a frame states at byte offset k, in thousandths of its unit:
\* the 16-bit value in mmHg, or in thousandths of a kPa when bit 0 of the
\* flags is set.
StatedPressure(frame, k) ==
    (frame[k + 1] + 256 * frame[k + 2]) * (IF frame[1] % 2 = 1 THEN 1 ELSE 1000)

\* The score the rules give, in tenths, for pressures in thousandths.
StatedBPQuality(systolic, diastolic) ==
    CASE systolic < 50000 \/ systolic > 250000
            \/ diastolic < 30000 \/ diastolic > 150000 -> 3
      [] OTHER ->
           CASE systolic <= diastolic -> 4
             [] OTHER ->
                  CASE systolic - diastolic < 20000 \/ systolic - diastolic > 100000 -> 6
                    [] OTHER -> 9

\* C26: for every well-formed blood-pressure frame the handler delivers a
\* reading, also when a value is out of range, and its quality_score is, by
\* the first matching rule: 0.3 if systolic is outside [50,250] or diastolic
\* outside [30,150]; 0.4 if systolic <= diastolic; 0.6 if systolic - diastolic
\* is outside [20,100]; otherwise 0.9.
C26_QualityByFirstMatchingRule ==
    codec.handled =>
        /\ codec.reading # << >>
        /\ codec.reading[1].quality_score =
              StatedBPQuality(StatedPressure(codec.frame, 1), StatedPressure(codec.frame, 3))
        /\ LET systolic == codec.reading[1].values.systolic
               diastolic == codec.reading[1].values.diastolic
           IN (/\ 50000 <= systolic /\ systolic <= 250000
               /\ 30000 <= diastolic /\ diastolic <= 150000
               /\ systolic > diastolic
               /\ 20000 <= systolic - diastolic /\ systolic - diastolic <= 100000)
                  => codec.reading[1].quality_score = 9

\* A frame with systolic 49 and diastolic 80 mmHg has been handled: the
\* reading was delivered, with score 0.3.
C26_OutOfRangeDelivered ==
    /\ codec.handled
    /\ codec.frame = <<0, 49, 0, 80, 0, 93, 0>>
    /\ codec.reading # << >>
    /\ codec.reading[1].quality_score = 3

\* C27: when shutdown() returns, the table is empty and every driver that
\* was in the table when shutdown() was called is in status disconnected,
\* whatever its type and whether or not its disconnect failed.
C27_ShutdownDisconnectsAll ==
    [][(shutdown.pc # "done" /\ shutdown'.pc = "done") =>
          /\ devices' = EmptyDict
          /\ \A d \in shutdown'.snapshot : status'[d] = "disconnected"
      ]_vars

\* C28: every driver whose status is connected or reading and that is
\* subscribed to notifications is the driver the table stores under its
\* device_id; no device_id has two such drivers.
C28_NoOrphanedDriver ==
    \A d \in Drivers :
        (status[d] \in {"connected", "reading"} /\ subscribed[d]) =>
            /\ devOf[d] \in DOMAIN devices
            /\ devices[devOf[d]] = d
            /\ \A e \in Drivers :
                  (/\ status[e] \in {"connected", "reading"}
                   /\ subscribed[e]
                   /\ devOf[e] = devOf[d]) => e = d

\* C29: a driver that disconnect() has set to disconnected (its client was
\* created by an earlier connect(), and connect() is never called on it
\* again) does not become connected or reading in any later step: a
\* read_data() or a calibration sampling that was suspended when the
\* disconnect happened does not put it back to connected when it resumes.
C29_DisconnectedStaysDisconnected ==
    [][\A d \in Drivers :
         (status[d] = "disconnected" /\ client[d] # "none" /\ d \notin connecting') =>
             status'[d] \notin {"connected", "reading"}
      ]_vars

====
